---- MODULE Spec2Model ----
(***************************************************************************)
(* Model of src/mettle/src/util/network_client.c: the durable              *)
(* multi-transport client (server registry, endpoint selector, reconnect   *)
(* timer, connection state machine, TLS handshake pump, callbacks).        *)
(*                                                                         *)
(* The event loop (libuv) and libtls are collaborators: their completion   *)
(* callbacks are the actions of the model, their results are inputs drawn  *)
(* with \E.  C strings are sequences of one-character strings.  The owner  *)
(* has registered its connect and close callbacks (the setters only store  *)
(* a pointer), so every "if (nc->xxx_cb)" call site calls.                 *)
(***************************************************************************)
EXTENDS Integers, Sequences, FiniteSets, TLC

(***************************************************************************)
(* Bounds of the exploration.                                              *)
(***************************************************************************)
MaxServers == 2
MaxPending == 2
MaxAttempts == 3
MaxSelServers == 3

(***************************************************************************)
(* Program constants.                                                      *)
(***************************************************************************)
TLS_OK == 0
TLS_FATAL == -1
TLS_READ_AGAIN == -2
TLS_WRITE_AGAIN == -3

Protos == {"udp", "tcp", "tls"}

\* proto_list: the scheme names str_to_proto compares against
proto_list == << [proto |-> "udp", str |-> <<"u","d","p">>],
                 [proto |-> "tcp", str |-> <<"t","c","p">>],
                 [proto |-> "tls", str |-> <<"t","l","s">>] >>

(***************************************************************************)
(* C string helpers (strcasecmp, strstr, strsep).                          *)
(***************************************************************************)
UpperChars == <<"A","B","C","D","E","F","G","H","I","J","K","L","M",
                "N","O","P","Q","R","S","T","U","V","W","X","Y","Z">>
LowerChars == <<"a","b","c","d","e","f","g","h","i","j","k","l","m",
                "n","o","p","q","r","s","t","u","v","w","x","y","z">>

tolower(c) ==
    IF \E i \in 1..Len(UpperChars) : UpperChars[i] = c
    THEN LowerChars[CHOOSE i \in 1..Len(UpperChars) : UpperChars[i] = c]
    ELSE c

\* strcasecmp(a, b) = 0
strcaseeq(a, b) ==
    /\ Len(a) = Len(b)
    /\ \A i \in 1..Len(a) : tolower(a[i]) = tolower(b[i])

\* strstr(s, pat): index of the first occurrence of pat in s, 0 for NULL
strstr(s, pat) ==
    LET hits == {i \in 1..(Len(s) - Len(pat) + 1) :
                    \A j \in 1..Len(pat) : s[i + j - 1] = pat[j]}
    IN  IF hits = {} THEN 0
        ELSE CHOOSE i \in hits : \A k \in hits : i <= k

\* the tokens strsep(&s, ",") yields until it returns NULL: always at least
\* one, and an empty field is a token
RECURSIVE strsep_all(_)
strsep_all(s) ==
    LET i == strstr(s, <<",">>)
    IN  IF i = 0 THEN <<s>>
        ELSE <<SubSeq(s, 1, i - 1)>> \o strsep_all(SubSeq(s, i + 1, Len(s)))

str_to_proto(proto) ==
    LET hits == {i \in 1..Len(proto_list) : strcaseeq(proto_list[i].str, proto)}
    IN  IF hits = {} THEN "tcp"
        ELSE proto_list[CHOOSE i \in hits : \A k \in hits : i <= k].proto

\* parse_server on a zeroed slot, allocations succeeding: rc and the server.
\* A URI without ":service" fails (rc = -1) and the slot is cleared.
parse_server(uri) ==
    LET sep   == strstr(uri, <<":","/","/">>)
        proto == IF sep = 0 THEN <<"t","c","p">> ELSE SubSeq(uri, 1, sep - 1)
        rest  == IF sep = 0 THEN uri ELSE SubSeq(uri, sep + 3, Len(uri))
        col   == strstr(rest, <<":">>)
        host  == IF col = 0 THEN rest ELSE SubSeq(rest, 1, col - 1)
    IN  IF col = 0
        THEN [rc |-> -1]
        ELSE [rc |-> 0,
              srv |-> [uri |-> uri,
                       proto |-> str_to_proto(proto),
                       host |-> host,
                       services |-> strsep_all(SubSeq(rest, col + 1, Len(rest)))]]

(***************************************************************************)
(* The URIs handed to add_server.                                          *)
(***************************************************************************)
UriUdpA == <<"u","d","p",":","/","/","a",":","5","3">>
UriTcpB == <<"t","c","p",":","/","/","b",":","8","0">>
UriTlsC == <<"T","L","S",":","/","/","c",":","1",",","2">>
UriBare == <<"d">>
Uris == {UriUdpA, UriTcpB, UriTlsC, UriBare}

\* the number of (server, service) pairs of a registry
RECURSIVE SumServices(_)
SumServices(srvs) ==
    IF srvs = <<>> THEN 0
    ELSE Len(Head(srvs).services) + SumServices(Tail(srvs))

GoodServers == {parse_server(u).srv : u \in {v \in Uris : parse_server(v).rc = 0}}
MaxServices == CHOOSE k \in 1..16 :
                  /\ \E g \in GoodServers : Len(g.services) = k
                  /\ \A g \in GoodServers : Len(g.services) <= k

(***************************************************************************)
(* State: the fields of struct network_client, what the loop has           *)
(* outstanding for it, and the observation variables of the properties.    *)
(***************************************************************************)
VARIABLES
    servers,        \* nc->servers[0 .. num_servers-1]
    servers_alloc,  \* nc->servers != NULL
    curr_server,    \* nc->curr_server
    curr_service,   \* nc->curr_service
    state,          \* nc->state
    addrinfo,       \* nc->addrinfo != NULL
    tls,            \* nc->tls: "null", "live", or "freed" (dangling)
    tls_state,      \* nc->tls_state
    timer_armed,    \* connect_timer is started
    pending,        \* operations the loop holds for this client, per kind
    crashed,        \* the process died (NULL / wild dereference, abort)
    freed,          \* network_client_free has released nc
    ev,             \* observation: the calls the last handler made: the owner's
                    \* callbacks with nc->state then, tls_free with what nc->tls was
    att,            \* observation: the attempt begun by the last proceeding firing
                    \* (was its server a TLS one, callbacks so far, handshake success)
    attempts        \* observation: the endpoints chosen, where a specification logs them

vars == <<servers, servers_alloc, curr_server, curr_service, state, addrinfo,
          tls, tls_state, timer_armed, pending, crashed, freed,
          ev, att, attempts>>

States == {"connected", "resolving", "connecting", "closed"}
TlsResults == {TLS_OK, TLS_FATAL, TLS_READ_AGAIN, TLS_WRITE_AGAIN}
NoPending == [resolve |-> 0, connect |-> 0, poll |-> 0, teardown |-> 0]
NoAttempt == [tls_target |-> FALSE, connects |-> 0, closes |-> 0, hs_ok |-> FALSE]
Garbage == <<"?">>
Reqs == {"intact", "clobbered"}

num_servers == Len(servers)
Outstanding == pending.resolve + pending.connect + pending.poll + pending.teardown

\* struct network_client * network_client(loop): calloc, state = closed
Init ==
    /\ servers = <<>>
    /\ servers_alloc = FALSE
    /\ curr_server = 0
    /\ curr_service = 0
    /\ state = "closed"
    /\ addrinfo = FALSE
    /\ tls = "null"
    /\ tls_state = 0
    /\ timer_armed = FALSE
    /\ pending = NoPending
    /\ crashed = FALSE
    /\ freed = FALSE
    /\ ev = <<>>
    /\ att = NoAttempt
    /\ attempts = <<>>


\* the process dies (NULL or wild dereference, abort in the allocator or in
\* the loop) while nc->state = st: nothing of the client remains, and no
\* handler runs again
Dead(st) ==
    /\ crashed' = TRUE
    /\ freed' = FALSE
    /\ state' = st
    /\ servers' = <<>>
    /\ servers_alloc' = FALSE
    /\ curr_server' = 0
    /\ curr_service' = 0
    /\ addrinfo' = FALSE
    /\ tls' = "null"
    /\ tls_state' = 0
    /\ timer_armed' = FALSE
    /\ pending' = NoPending
    /\ ev' = <<>>
    /\ att' = NoAttempt

\* get_curr_server: NULL without an array, else &servers[curr_server], which
\* lies outside the registered servers when curr_server >= num_servers
get_curr_server(srvs, alloc, cs) ==
    IF ~alloc THEN [tag |-> "null"]
    ELSE IF cs < Len(srvs) THEN [tag |-> "srv", srv |-> srvs[cs + 1]]
    ELSE [tag |-> "oob"]

\* what reading srv->proto can give: NULL kills the process, a slot outside
\* the registry holds anything
ReadProto(s) ==
    IF s.tag = "srv" THEN {s.srv.proto}
    ELSE IF s.tag = "oob" THEN Protos \cup {"other", "crash"}
    ELSE {"crash"}

\* what reading srv->num_services can give (a slot outside the registry is
\* explored with the counts a server can have)
ReadNumServices(s) ==
    IF s.tag = "srv" THEN {Len(s.srv.services)}
    ELSE IF s.tag = "oob" THEN 0..MaxServices
    ELSE {0}

\* get_curr_service: servers[curr_server].services[curr_service]
get_curr_service(srvs, alloc, cs, cv) ==
    LET s == get_curr_server(srvs, alloc, cs)
    IN  IF s.tag = "srv" /\ cv < Len(s.srv.services)
        THEN [tag |-> "str", str |-> s.srv.services[cv + 1]]
        ELSE IF s.tag = "null" THEN [tag |-> "null"] ELSE [tag |-> "oob"]

\* the log lines of the failure paths read srv->proto, srv->host and the
\* current service: fine on a valid cursor, else the process may die
ReadForLog(srvs, alloc, cs, cv) ==
    LET s == get_curr_server(srvs, alloc, cs)
    IN  IF s.tag = "null" THEN {"crash"}
        ELSE IF get_curr_service(srvs, alloc, cs, cv).tag = "str" THEN {"ok"}
        ELSE {"ok", "crash"}

\* choose_next_server: the cursor after the advance, given the num_services
\* read from the current server (ns) and num_servers (n)
choose_next_server_skip(ns, n, cs, cv) ==
    IF cv < ns - 1 THEN <<cs, cv + 1>>
    ELSE IF n > 1
         THEN <<IF cs + 1 >= n THEN 0 ELSE cs + 1, cv>>
         ELSE <<cs, 0>>

choose_next_server(ns, n, cs, cv) ==
    IF cv < ns - 1 THEN <<cs, cv + 1>>
    ELSE IF n > 1
         THEN <<IF cs + 1 >= n THEN 0 ELSE cs + 1, 0>>
         ELSE <<cs, 0>>

(***************************************************************************)
(* Registry and timer.                                                     *)
(***************************************************************************)
RegistryFrame == UNCHANGED <<curr_server, curr_service, state, addrinfo, tls,
                             tls_state, timer_armed, pending, crashed, freed, att>>

\* network_client_add_server(nc, uri).  reallocarray does not clear the new
\* slot and parse_server reads srv->services / srv->num_services from it
\* before writing them: on cleared memory (slot = "zero") the call parses,
\* on anything else (slot = "dirty") realloc/free get a wild pointer.
network_client_add_server(uri, slot) ==
    /\ ~crashed /\ ~freed
    /\ num_servers < MaxServers
    /\ attempts' = attempts
    /\ IF slot = "dirty"
       THEN Dead(state)
       ELSE LET r == parse_server(uri)
            IN  /\ servers' = IF r.rc = 0 THEN Append(servers, r.srv) ELSE servers
                /\ servers_alloc' = TRUE
                /\ ev' = <<>>
                /\ RegistryFrame

\* network_client_remove_servers(nc)
network_client_remove_servers ==
    /\ ~crashed /\ ~freed
    /\ attempts' = attempts
    /\ servers' = <<>>
    /\ servers_alloc' = FALSE
    /\ ev' = <<>>
    /\ RegistryFrame

TimerFrame == UNCHANGED <<servers, servers_alloc, curr_server, curr_service,
                          state, addrinfo, tls, tls_state, pending, crashed, freed,
                          att, attempts>>

\* network_client_start(nc): uv_timer_start(reconnect_cb, 0, 1000)
network_client_start ==
    /\ ~crashed /\ ~freed
    /\ timer_armed' = TRUE
    /\ ev' = <<>>
    /\ TimerFrame

\* network_client_stop(nc): uv_timer_stop
network_client_stop ==
    /\ ~crashed /\ ~freed
    /\ timer_armed' = FALSE
    /\ ev' = <<>>
    /\ TimerFrame

\* network_client_free(nc): stop, remove_servers, free(nc).  Nothing the
\* loop holds for the client is cancelled: its callbacks still run, on the
\* released memory.
network_client_free ==
    /\ ~crashed /\ ~freed
    /\ freed' = TRUE
    /\ timer_armed' = FALSE
    /\ servers' = <<>>
    /\ servers_alloc' = FALSE
    /\ ev' = <<>>
    /\ UNCHANGED <<curr_server, curr_service, state, addrinfo, tls, tls_state,
                   pending, crashed, att, attempts>>

(***************************************************************************)
(* Reconnect timer.                                                        *)
(***************************************************************************)
\* the early return of reconnect_cb
reconnect_noop_anystate(st, n) == n = 0

reconnect_noop(st, n) == st # "closed" \/ n = 0

\* reconnect_cb(timer), the log apart.  ns is the num_services
\* choose_next_server reads, rc the result of uv_getaddrinfo (ignored by the
\* code: on an error no resolving_cb will come), wild the outcome of reading
\* a host/service that lies outside the registry.
Reconnect(ns, rc, wild) ==
    /\ ~crashed /\ ~freed
    /\ timer_armed
    /\ IF reconnect_noop(state, num_servers)
       THEN /\ ns = 0 /\ rc = 0 /\ wild = "ok"
            /\ ev' = <<>>
            /\ UNCHANGED <<servers, servers_alloc, curr_server, curr_service,
                           state, addrinfo, tls, tls_state, timer_armed,
                           pending, crashed, freed, att>>
       ELSE LET cur  == choose_next_server(ns, num_servers, curr_server, curr_service)
                good == get_curr_service(servers, servers_alloc,
                                         cur[1], cur[2]).tag = "str"
            IN  /\ pending.resolve + pending.connect + pending.poll < MaxPending
                /\ ns \in ReadNumServices(
                       get_curr_server(servers, servers_alloc, curr_server))
                /\ wild \in (IF good THEN {"ok"} ELSE {"ok", "crash"})
                /\ IF wild = "crash"
                   THEN /\ rc = 0
                        /\ Dead(state)
                   ELSE /\ curr_server' = cur[1]
                        /\ curr_service' = cur[2]
                        /\ state' = "resolving"
                        /\ pending' = IF rc = 0
                                      THEN [pending EXCEPT !.resolve = @ + 1]
                                      ELSE pending
                        /\ att' = [NoAttempt EXCEPT !.tls_target =
                                     ReadProto(get_curr_server(servers,
                                        servers_alloc, cur[1])) = {"tls"}]
                        /\ ev' = <<>>
                        /\ UNCHANGED <<servers, servers_alloc, addrinfo, tls,
                                       tls_state, timer_armed, crashed, freed>>

reconnect_cb(ns, rc, wild) ==
    /\ Reconnect(ns, rc, wild)
    /\ attempts' = attempts

\* the endpoint under the cursor <<cs, cv>>: what reconnect_cb hands to
\* uv_getaddrinfo
Endpoint(srvs, alloc, cs, cv) ==
    LET srv == get_curr_server(srvs, alloc, cs)
        svc == get_curr_service(srvs, alloc, cs, cv)
    IN  [host |-> IF svc.tag = "str" THEN srv.srv.host ELSE Garbage,
         service |-> IF svc.tag = "str" THEN svc.str ELSE Garbage,
         server |-> cs, svc |-> cv]

\* reconnect_cb, with the endpoint of every attempt it starts logged
reconnect_cb_logged(ns, rc, wild) ==
    /\ Len(attempts) < MaxAttempts
    /\ Reconnect(ns, rc, wild)
    /\ attempts' = IF ~reconnect_noop(state, num_servers) /\ ~crashed'
                   THEN Append(attempts, Endpoint(servers, servers_alloc,
                                                  curr_server', curr_service'))
                   ELSE attempts

(***************************************************************************)
(* Connection state machine.                                               *)
(***************************************************************************)
\* what no handler of the connection touches
ConnFrame == UNCHANGED <<servers, servers_alloc, curr_server, curr_service,
                         timer_armed, crashed, freed>>

\* the registered connect callback, called while nc->state = st
CallConnect(st) == <<[cb |-> "connect", st |-> st]>>

\* set_closed(nc), with nc->tls = tlsv at the call and pend outstanding.
\* tls_free leaves nc->tls dangling, so a later set_closed frees the session
\* again (dbl: the process aborts in the allocator, or goes on).
set_closed(tlsv, pend) ==
    \E dbl \in (IF tlsv = "freed" THEN {"ok", "crash"} ELSE {"ok"}) :
       IF dbl = "crash"
       THEN Dead("closed")
       ELSE /\ state' = "closed"
            /\ addrinfo' = FALSE
            /\ tls' = IF tlsv = "live" THEN "freed" ELSE tlsv
            /\ tls_state' = IF tlsv = "null" THEN tls_state ELSE 0
            /\ pending' = pend
            /\ ev' = (IF tlsv = "null" THEN <<>>
                      ELSE <<[cb |-> "tls_free", st |-> tlsv]>>)
                     \o <<[cb |-> "close", st |-> "closed"]>>
            /\ att' = [att EXCEPT !.closes = @ + 1]
            /\ ConnFrame

\* resolving_cb(req, status, addrinfo).  The uv_getaddrinfo_t that
\* reconnect_cb handed to the loop lived in its stack frame: req->data is
\* read from memory that is dead by now (req: it still holds nc, or not).
resolving_cb(status, req) ==
    /\ ~crashed
    /\ attempts' = attempts
    /\ pending.resolve > 0
    /\ LET srv  == get_curr_server(servers, servers_alloc, curr_server)
           done == [pending EXCEPT !.resolve = @ - 1]
       IN  IF req = "clobbered"
           THEN status = 0 /\ Dead(state)
           ELSE IF status < 0
           THEN \E lg \in ReadForLog(servers, servers_alloc,
                                     curr_server, curr_service) :
                   IF lg = "crash"
                   THEN Dead(state)
                   ELSE set_closed(tls, done)
           ELSE \E p \in ReadProto(srv) :
                  IF p = "crash"
                  THEN Dead(state)
                  ELSE IF p = "udp"
                  THEN \* connect_udp: the callback runs, then the state is set
                       /\ ev' = CallConnect(state)
                       /\ state' = "connected"
                       /\ addrinfo' = TRUE
                       /\ pending' = done
                       /\ att' = [att EXCEPT !.connects = @ + 1]
                       /\ UNCHANGED <<tls, tls_state>>
                       /\ ConnFrame
                  ELSE IF p \in {"tcp", "tls"}
                  THEN \* connect_tcp: rc of uv_tcp_connect
                       \E rc \in {0, -1} :
                         IF rc = 0
                         THEN /\ state' = "connecting"
                              /\ addrinfo' = TRUE
                              /\ pending' = [done EXCEPT !.connect = @ + 1]
                              /\ ev' = <<>>
                              /\ UNCHANGED <<tls, tls_state, att>>
                              /\ ConnFrame
                         ELSE set_closed(tls, done)
                  ELSE \* no case of the switch matches
                       /\ addrinfo' = TRUE
                       /\ pending' = done
                       /\ ev' = <<>>
                       /\ UNCHANGED <<state, tls, tls_state, att>>
                       /\ ConnFrame

\* the test of connect_tcp_cb that takes the plain-TCP branch
is_plain_tcp(p) == p = "tcp"

\* connect_tcp_cb(req, status).  The uv_connect_t of connect_tcp lived in
\* its stack frame, as above.
connect_tcp_cb(status, req) ==
    /\ ~crashed
    /\ attempts' = attempts
    /\ pending.connect > 0
    /\ LET srv  == get_curr_server(servers, servers_alloc, curr_server)
           done == [pending EXCEPT !.connect = @ - 1]
       IN  IF req = "clobbered"
           THEN status = 0 /\ Dead(state)
           ELSE IF status # 0
           THEN \E lg \in ReadForLog(servers, servers_alloc,
                                     curr_server, curr_service) :
                   IF lg = "crash"
                   THEN Dead(state)
                   ELSE set_closed(tls, done)
           ELSE \E p \in ReadProto(srv) :
                  IF p = "crash"
                  THEN Dead(state)
                  ELSE IF is_plain_tcp(p)
                  THEN /\ state' = "connected"
                       /\ ev' = CallConnect("connected")
                       /\ pending' = done
                       /\ att' = [att EXCEPT !.connects = @ + 1]
                       /\ UNCHANGED <<addrinfo, tls, tls_state>>
                       /\ ConnFrame
                  ELSE \* tls_client(): a session or NULL
                       \E session \in {"live", "null"} :
                         IF session = "null"
                         THEN set_closed("null", done)
                         ELSE \* uv_fileno, then the first handshake step
                              \E fileno \in {0, -1}, r \in TlsResults :
                                /\ tls' = "live"
                                /\ ev' = <<>>
                                /\ UNCHANGED <<state, addrinfo>>
                                /\ ConnFrame
                                /\ IF fileno = 0
                                   THEN /\ tls_state' = r
                                        /\ pending' = [done EXCEPT !.poll = @ + 1]
                                        /\ att' = [att EXCEPT !.hs_ok =
                                                     @ \/ r = TLS_OK]
                                   ELSE /\ r = TLS_OK
                                        /\ tls_state' = tls_state
                                        /\ pending' = done
                                        /\ att' = att

\* on_poll(req, status, events): r is the result of tls_connect_socket.  The
\* poll handle is never stopped, so it keeps notifying; it lived in the stack
\* frame of connect_tcp_cb, as above.
on_poll(r, req) ==
    /\ ~crashed
    /\ attempts' = attempts
    /\ pending.poll > 0
    /\ IF req = "clobbered"
       THEN r = TLS_OK /\ Dead(state)
       ELSE /\ ConnFrame
            /\ UNCHANGED <<addrinfo, tls, pending>>
            /\ ev' = <<>>
            /\ IF /\ state = "connecting"
                  /\ tls_state \in {TLS_READ_AGAIN, TLS_WRITE_AGAIN}
               THEN /\ tls_state' = r
                    /\ state' = IF r = TLS_OK THEN "connected" ELSE state
                    /\ att' = [att EXCEPT !.hs_ok = @ \/ r = TLS_OK]
               ELSE /\ r = TLS_OK
                    /\ UNCHANGED <<state, tls_state, att>>

\* the result of network_client_close in state st
close_rc(st) == IF st # "connected" THEN -1 ELSE 0

\* network_client_close(nc).  uv_close on a handle that is already closing
\* (a second close before on_close ran) is outside libuv's contract: the
\* process aborts on its assertion, or the handle is queued for closing again.
network_client_close ==
    /\ ~crashed /\ ~freed
    /\ attempts' = attempts
    /\ IF close_rc(state) # 0
       THEN /\ ev' = <<>>
            /\ UNCHANGED <<state, addrinfo, tls, tls_state, att, pending>>
            /\ ConnFrame
       ELSE /\ pending.teardown < MaxPending
            /\ \E again \in (IF pending.teardown > 0 THEN {"queued", "abort"}
                             ELSE {"queued"}) :
                 IF again = "abort"
                 THEN Dead(state)
                 ELSE /\ pending' = [pending EXCEPT !.teardown = @ + 1]
                      /\ ev' = <<>>
                      /\ UNCHANGED <<state, addrinfo, tls, tls_state, att>>
                      /\ ConnFrame

\* on_close(handle)
on_close ==
    /\ ~crashed
    /\ attempts' = attempts
    /\ pending.teardown > 0
    /\ set_closed(tls, [pending EXCEPT !.teardown = @ - 1])

(***************************************************************************)
(* The client driven by its owner and by the loop.                         *)
(***************************************************************************)
Next ==
    \/ \E uri \in Uris, slot \in {"zero", "dirty"} :
          network_client_add_server(uri, slot)
    \/ network_client_remove_servers
    \/ network_client_start
    \/ network_client_stop
    \/ \E ns \in 0..MaxServices, rc \in {0, -1}, wild \in {"ok", "crash"} :
          reconnect_cb(ns, rc, wild)
    \/ \E status \in {0, -1}, req \in Reqs : resolving_cb(status, req)
    \/ \E status \in {0, -1}, req \in Reqs : connect_tcp_cb(status, req)
    \/ \E r \in TlsResults, req \in Reqs : on_poll(r, req)
    \/ network_client_close
    \/ on_close
    \/ network_client_free

Spec == Init /\ [][Next]_vars

TypeOK ==
    /\ state \in States
    /\ tls \in {"null", "live", "freed"}
    /\ tls_state \in TlsResults
    /\ curr_server \in Nat /\ curr_service \in Nat
    /\ num_servers <= MaxServers \/ num_servers <= MaxSelServers
    /\ Len(attempts) <= MaxAttempts \/ Len(attempts) <= 2 * SumServices(servers) + 1
    /\ \A k \in DOMAIN pending : pending[k] \in 0..MaxPending

(***************************************************************************)
(* The endpoint selector alone: a registry filled on a fresh client and    *)
(* left as it is, the cursor where calloc put it, and choose_next_server   *)
(* applied again and again.  attempts records the cursor after each call.  *)
(***************************************************************************)
SelRegistries ==
    UNION {[1..k -> GoodServers] : k \in 1..MaxSelServers}

InitSel ==
    /\ servers \in SelRegistries
    /\ servers_alloc = TRUE
    /\ curr_server = 0
    /\ curr_service = 0
    /\ state = "closed"
    /\ addrinfo = FALSE
    /\ tls = "null"
    /\ tls_state = 0
    /\ timer_armed = FALSE
    /\ pending = NoPending
    /\ crashed = FALSE
    /\ freed = FALSE
    /\ ev = <<>>
    /\ att = NoAttempt
    /\ attempts = <<>>

SelAdvance ==
    LET srv == get_curr_server(servers, servers_alloc, curr_server)
        cur == choose_next_server(Len(srv.srv.services), num_servers,
                                  curr_server, curr_service)
    IN  /\ Len(attempts) < 2 * SumServices(servers) + 1
        /\ srv.tag = "srv"
        /\ curr_server' = cur[1]
        /\ curr_service' = cur[2]
        /\ attempts' = Append(attempts,
              Endpoint(servers, servers_alloc, cur[1], cur[2]))
        /\ UNCHANGED <<servers, servers_alloc, state, addrinfo, tls, tls_state,
                       timer_armed, pending, crashed, freed, ev, att>>

NextSel == SelAdvance

SpecSel == InitSel /\ [][NextSel]_vars

(***************************************************************************)
(* The client on a registry that was filled on the fresh client and is     *)
(* left as it is: every handler but the registry's, the attempts logged.   *)
(***************************************************************************)
InitFixed ==
    /\ InitSel
    /\ Len(servers) <= MaxServers

NextFixed ==
    \/ network_client_start
    \/ network_client_stop
    \/ \E ns \in 0..MaxServices, rc \in {0, -1}, wild \in {"ok", "crash"} :
          reconnect_cb_logged(ns, rc, wild)
    \/ \E status \in {0, -1}, req \in Reqs : resolving_cb(status, req)
    \/ \E status \in {0, -1}, req \in Reqs : connect_tcp_cb(status, req)
    \/ \E r \in TlsResults, req \in Reqs : on_poll(r, req)
    \/ network_client_close
    \/ on_close
    \/ network_client_free

SpecFixed == InitFixed /\ [][NextFixed]_vars

\* the loop delivers what it holds: a pending completion, readiness
\* notification or close callback is eventually run
LoopDelivers ==
    /\ WF_vars(\E status \in {0, -1}, req \in Reqs : resolving_cb(status, req))
    /\ WF_vars(\E status \in {0, -1}, req \in Reqs : connect_tcp_cb(status, req))
    /\ WF_vars(\E r \in TlsResults, req \in Reqs : on_poll(r, req))
    /\ WF_vars(on_close)

SpecFixedLive == SpecFixed /\ LoopDelivers

(***************************************************************************)
(* The retry loop: the client on a fixed registry with a peer that is not  *)
(* there (a resolution fails or succeeds, every transport connect fails),  *)
(* the timer firing every interval while it is armed.                      *)
(***************************************************************************)
TimerFires ==
    \E ns \in 0..MaxServices, rc \in {0, -1}, wild \in {"ok", "crash"} :
        reconnect_cb(ns, rc, wild)

NextRetry ==
    \/ network_client_start
    \/ network_client_stop
    \/ TimerFires
    \/ \E status \in {0, -1}, req \in Reqs : resolving_cb(status, req)
    \/ \E req \in Reqs : connect_tcp_cb(-1, req)

SpecRetry == InitFixed /\ [][NextRetry]_vars /\ WF_vars(TimerFires) /\ LoopDelivers

(***************************************************************************)
(* Properties.                                                             *)
(***************************************************************************)
ReconnectFires ==
    \E ns \in 0..MaxServices, rc \in {0, -1}, wild \in {"ok", "crash"} :
        Reconnect(ns, rc, wild)

Calls(e, cb) == Cardinality({i \in DOMAIN e : e[i].cb = cb})

\* C1: a firing of the reconnect timer in a state other than Closed, or with
\* an empty registry, changes neither the state nor the cursor nor what is
\* outstanding and starts no resolution; and the state only ever becomes
\* Resolving by a firing in state Closed with a non-empty registry, which
\* advances the cursor by one step of the selector.
C1_ReconnectNoopUnlessClosed ==
    [][ /\ (ReconnectFires /\ (state # "closed" \/ num_servers = 0))
           => UNCHANGED <<state, curr_server, curr_service, pending, att>>
        /\ (state' = "resolving" /\ state # "resolving")
           => /\ state = "closed" /\ num_servers > 0
              /\ ReconnectFires
              /\ pending'.resolve >= pending.resolve
              /\ \E ns \in ReadNumServices(
                     get_curr_server(servers, servers_alloc, curr_server)) :
                   <<curr_server', curr_service'>> =
                     choose_next_server(ns, num_servers, curr_server, curr_service)
      ]_vars

\* a firing is possible while an attempt is under way
C1_Witness ==
    /\ timer_armed /\ ~crashed
    /\ state = "connecting" /\ pending.connect = 1
    /\ num_servers > 0

\* C2: at most one asynchronous operation (resolution, transport connect,
\* handshake poll, teardown) is outstanding for the client.
C2_AtMostOneOutstanding == Outstanding <= 1

\* C3: the connect callback is invoked exactly once by every step that takes
\* the state to Connected, and by no other step.
C3_ConnectCbOncePerConnected ==
    [][ /\ (state' = "connected" /\ state # "connected")
           => Calls(ev', "connect") = 1
        /\ Calls(ev', "connect") > 0
           => (state' = "connected" /\ state # "connected")
      ]_vars

\* C4: the close callback is invoked exactly once by every step that takes
\* the state from a non-Closed state to Closed, and never by a step that
\* began in state Closed.
C4_CloseCbOncePerClosed ==
    [][ /\ (state' = "closed" /\ state # "closed")
           => Calls(ev', "close") = 1
        /\ Calls(ev', "close") > 0
           => (state' = "closed" /\ state # "closed")
      ]_vars

\* C5: a connection that is closed gets its close callback once, however
\* often close() was called before the teardown completed; close() on a
\* Closed client fails.
C5_CloseOnceForConnection ==
    /\ att.closes <= 1
    /\ (state = "closed" => close_rc(state) = -1)

\* a step at which the attempt fails at name resolution or transport connect
FailsAtResolveOrConnect ==
    \/ resolving_cb(-1, "intact")
    \/ connect_tcp_cb(-1, "intact")
    \/ (ReconnectFires /\ state' = "resolving" /\ pending' = pending)

\* C6: an attempt that fails at name resolution or at transport connect ends
\* Closed, with the close callback invoked once and the connect callback not
\* invoked for it; a failed transport connect has visited Resolving,
\* Connecting, Closed; with one endpoint the next attempt is that endpoint.
C6_FailedAttemptEndsClosed ==
    [][ /\ FailsAtResolveOrConnect
           => /\ state' = "closed" /\ ~crashed'
              /\ Calls(ev', "close") = 1
              /\ att'.closes = 1 /\ att'.connects = 0
        /\ (state' = "connecting" /\ state # "connecting") => state = "resolving"
        /\ (connect_tcp_cb(-1, "intact") /\ ~crashed') => (state = "connecting" /\ state' = "closed")
        /\ (Len(attempts') = Len(attempts) + 1 /\ Len(attempts) > 0
            /\ num_servers = 1 /\ Len(servers[1].services) = 1)
           => /\ attempts'[Len(attempts')].host = attempts[Len(attempts)].host
              /\ attempts'[Len(attempts')].service = attempts[Len(attempts)].service
      ]_vars

\* C7: a step of an attempt that was begun on a TLS server invokes the
\* connect callback only if a handshake step of that attempt has reported
\* success.
C7_TlsConnectCbOnlyAfterHandshake ==
    [][ (att'.tls_target /\ Calls(ev', "connect") > 0) => att'.hs_ok ]_vars

\* C8: after a handshake step returned the fatal result the client is not
\* left in Connecting.
C8_FatalHandshakeCloses ==
    ~(state = "connecting" /\ tls = "live" /\ tls_state = TLS_FATAL)

Cursor(a) == <<a.server, a.svc>>

AllPairs(srvs) ==
    UNION {{<<x - 1, y - 1>> : y \in 1..Len(srvs[x].services)} : x \in 1..Len(srvs)}

\* C9: with a fixed registry, any c1+...+cN consecutive advances visit every
\* (server, service) pair exactly once; every advance either moves to the
\* next service of the same server or, from the last service of a server,
\* to service 0 of the next server (the first after the last); with one
\* server the server index stays.
C9_RoundRobin ==
    LET T == SumServices(servers)
        N == Len(servers)
        L == Len(attempts)
    IN  /\ \A i \in 1..L :
             (i + T - 1 <= L) =>
                /\ \A j, k \in i..(i + T - 1) :
                      (Cursor(attempts[j]) = Cursor(attempts[k])) => j = k
                /\ \A pr \in AllPairs(servers) :
                      \E j \in i..(i + T - 1) : Cursor(attempts[j]) = pr
        /\ \A j \in 1..(L - 1) :
             LET a == attempts[j]
                 b == attempts[j + 1]
                 last == Len(servers[a.server + 1].services) - 1
             IN  \/ (a.svc < last /\ b.server = a.server /\ b.svc = a.svc + 1)
                 \/ (a.svc = last /\ b.svc = 0
                     /\ b.server = (a.server + 1) % N)
        /\ (N = 1 => \A j \in 1..L : attempts[j].server = 0)

\* a full cycle and more over servers with different service counts
C9_Witness ==
    /\ Len(servers) >= 2
    /\ SumServices(servers) > Len(servers)
    /\ Len(attempts) > SumServices(servers)

HostService(a) == <<a.host, a.service>>

\* C10: with udp://a:53 then tcp://b:80 registered on a fresh client, the
\* endpoints attempted are a/53, b/80, a/53, ... in this order.
C10_AttemptOrder ==
    (/\ Len(servers) = 2
     /\ servers[1].uri = UriUdpA /\ servers[2].uri = UriTcpB)
    => \A i \in 1..Len(attempts) :
          HostService(attempts[i]) =
             IF i % 2 = 1 THEN << <<"a">>, <<"5","3">> >>
                          ELSE << <<"b">>, <<"8","0">> >>

\* C11: whenever the registry is non-empty the cursor designates a registered
\* server and one of its services; and no attempt is started while the
\* registry is empty.
C11_CursorValid ==
    /\ [](num_servers > 0 =>
            /\ curr_server \in 0..(num_servers - 1)
            /\ curr_service \in 0..(Len(servers[curr_server + 1].services) - 1))
    /\ [][ num_servers = 0 => ~(state' = "resolving" /\ state # "resolving") ]_vars

\* the result of network_client_add_server(uri) when it returns
add_server_rc(uri) == IF parse_server(uri).rc # 0 THEN -1 ELSE 0

\* a URI without a service list
LacksServices(uri) ==
    LET sep  == strstr(uri, <<":","/","/">>)
        rest == IF sep = 0 THEN uri ELSE SubSeq(uri, sep + 3, Len(uri))
    IN  strstr(rest, <<":">>) = 0

\* C12: add_server of a URI without a service list returns failure and
\* leaves the registry as it was; a call changes the registry only by
\* appending the server it parsed in full.
C12_AddServerAtomic ==
    [][ \A uri \in Uris :
          (\E slot \in {"zero", "dirty"} : network_client_add_server(uri, slot))
          => /\ ~crashed'
             /\ LacksServices(uri) => (add_server_rc(uri) = -1 /\ servers' = servers)
             /\ servers' # servers
                => /\ add_server_rc(uri) = 0
                   /\ servers' = Append(servers, parse_server(uri).srv)
      ]_vars

\* the same on a slot that reallocarray happened to hand out cleared
C12_OnClearedSlot ==
    [][ \A uri \in Uris :
          network_client_add_server(uri, "zero")
          => /\ ~crashed'
             /\ LacksServices(uri) => (add_server_rc(uri) = -1 /\ servers' = servers)
             /\ servers' # servers
                => /\ add_server_rc(uri) = 0
                   /\ servers' = Append(servers, parse_server(uri).srv)
      ]_vars

\* an attempt is under way and the loop holds an operation of it
InFlight ==
    /\ state \in {"resolving", "connecting"}
    /\ pending.resolve + pending.connect + pending.poll > 0

\* C13: stop changes nothing but the timer; while the timer is not armed no
\* step takes the state to Resolving; and an attempt that is in flight while
\* the timer is stopped still reaches Connected or Closed.
C13_StopOnlyDisarms ==
    /\ [][ network_client_stop
           => UNCHANGED <<servers, curr_server, curr_service, state, addrinfo,
                          tls, tls_state, pending, crashed>> ]_vars
    /\ [][ ~timer_armed => ~(state' = "resolving" /\ state # "resolving") ]_vars
    /\ ((~timer_armed /\ InFlight) ~> (state \in {"connected", "closed"}))

\* the server under the cursor is a registered TLS server
CurrIsTls ==
    LET srv == get_curr_server(servers, servers_alloc, curr_server)
    IN  srv.tag = "srv" /\ srv.srv.proto = "tls"

\* C14: nc->tls refers to a session exactly when the current server is a TLS
\* server and the state is Connecting or Connected; in particular it is NULL
\* in Closed and Resolving and for UDP/TCP servers.
C14_TlsSessionIffTlsConnection ==
    (~crashed) =>
       /\ (tls # "null") <=> (CurrIsTls /\ state \in {"connecting", "connected"})
       /\ (state \in {"closed", "resolving"} => tls = "null")

\* C15: every tls_free is given a session that exists and has not been
\* released before, and the step that releases it ends in Closed.
C15_TlsReleasedOnce ==
    [][ \A i \in DOMAIN ev' :
           ev'[i].cb = "tls_free" => (ev'[i].st = "live" /\ state' = "closed")
      ]_vars

\* C16: once network_client_free has run, the timer is disarmed, the registry
\* is empty, and the client holds no resolution result and no TLS session
\* that was not released.
C16_FreeReleasesAll ==
    freed => /\ ~timer_armed
             /\ servers = <<>> /\ ~servers_alloc
             /\ ~addrinfo
             /\ tls # "live"

\* C17: a step at which a handshake step of the attempt first reports
\* success ends in Connected; a step at which one reports retry-needed ends
\* in Connecting with the readiness poll active.
C17_HandshakeSuccessConnects ==
    /\ [][ (att'.hs_ok /\ ~att.hs_ok) => state' = "connected" ]_vars
    /\ [][ (tls_state' \in {TLS_READ_AGAIN, TLS_WRITE_AGAIN} /\ tls_state' # tls_state)
           => (state' = "connecting" /\ pending'.poll > 0) ]_vars

\* an attempt begins
AttemptBegins == state = "closed" /\ state' = "resolving"

\* C18: while the timer is armed and the registry is non-empty, a Closed
\* client eventually begins an attempt (or is stopped); and a client that
\* stays armed and never gets Connected begins attempts again and again.
C18_UnboundedRetry ==
    /\ (timer_armed /\ state = "closed" /\ num_servers > 0)
          ~> (state = "resolving" \/ (~timer_armed /\ ~crashed))
    /\ (<>[](timer_armed /\ state # "connected")) => []<><<AttemptBegins>>_vars

\* C19: whenever the connect callback is invoked, nc->state is Connected at
\* that moment.
C19_ConnectCbSeesConnected ==
    [][ \A i \in DOMAIN ev' :
           ev'[i].cb = "connect" => ev'[i].st = "connected" ]_vars

\* a completion callback of the in-flight attempt runs
CompletionRuns ==
    \/ \E status \in {0, -1}, req \in Reqs : resolving_cb(status, req)
    \/ \E status \in {0, -1}, req \in Reqs : connect_tcp_cb(status, req)

\* C20: whenever resolving_cb or connect_tcp_cb runs, the cursor designates
\* a server that is present in the registry, whatever add_server and
\* remove_servers did while the attempt was in flight.
C20_CompletionReadsPresentServer ==
    [][ CompletionRuns =>
          get_curr_server(servers, servers_alloc, curr_server).tag = "srv" ]_vars

====
